---- MODULE Spec2Model ----
(***************************************************************************)
(* One harvest of the FAIRagro basic middleware: scrape_repo and the       *)
(* pieces it drives (HttpSession.get_decoded_url, the sitemap parsers, the *)
(* metadata extractors, the fan-out over the dataset addresses).           *)
(* Beside it: the run of main over the configured repositories (MainSpec), *)
(* one call of get_decoded_url step by step (FetchSpec), and the class     *)
(* registry of RegisteringABC (RegSpec).                                   *)
(*                                                                         *)
(* Documents are modelled by their structure, not their characters: an     *)
(* index or a dataset page is a record that says which format it has and   *)
(* what it contains, and every parser is an operator over that record.     *)
(* Python exceptions are the strings of their class names.                 *)
(***************************************************************************)
EXTENDS Integers, Sequences, FiniteSets, TLC

\* ------------------------------------------------------------------ bounds
MaxUrls == 3            \* most dataset addresses an index lists
MaxRecords == 2         \* most records one document holds
MaxConnectionLimit == 2 \* largest configured connection_limit

\* --------------------------------------------------------- python values
\* Optional[List]: None or a list
PyNone == [is_none |-> TRUE, items |-> <<>>]
PyList(s) == [is_none |-> FALSE, items |-> s]
\* a JSON object where a list is expected
PyDict(r) == [is_none |-> FALSE, record |-> r]

\* outcome of a call: a value or a raised exception
Ok(v) == [ok |-> TRUE, val |-> v, exc |-> "-"]
Raise(e) == [ok |-> FALSE, val |-> PyNone, exc |-> e]

\* HttpSessionFetchError and its four subclasses
FetchErrors ==
    {"HttpSessionArgumentError", "HttpSessionTechnicalError",
     "HttpSessionResponseError", "HttpSessionDecodeError"}

SKIP_RDI_REPORT == [valid_entries |-> 0, failed_entries |-> 0, skipped |-> TRUE]

\* ------------------------------------------------------------- documents
\* A dataset page as the extractors see it.
\*   empty    ""                          garbage  text that is neither JSON nor HTML
\*   object   one bare JSON object        array    a JSON array of n objects
\*   deep     JSON nested beyond the interpreter's recursion limit
\*   html     HTML with n well-formed ld+json scripts
\*   badhtml  HTML whose ld+json script is malformed JSON
PageDocs ==
    {[fmt |-> "empty", n |-> 0], [fmt |-> "garbage", n |-> 0],
     [fmt |-> "object", n |-> 1], [fmt |-> "deep", n |-> 1],
     [fmt |-> "badhtml", n |-> 1]}
    \cup {[fmt |-> "array", n |-> k] : k \in 0..MaxRecords}
    \cup {[fmt |-> "html", n |-> k] : k \in 0..MaxRecords}

\* the i-th record of the document found at address a
Rec(a, i) == <<a, i>>
RecsOf(a, n) == [i \in 1..n |-> Rec(a, i)]

\* ------------------------------------------------------------- addresses
\* netloc_ok: the square brackets of the network location match
Url(scheme, id) == [scheme |-> scheme, id |-> id, netloc_ok |-> TRUE]

\* an address like "ftp://[::1/data", with an unmatched square bracket
BadUrl(scheme, id) == [scheme |-> scheme, id |-> id, netloc_ok |-> FALSE]

\* ------------------------------------------------------------ the world
\* What the outside answers to one read of an address.
\*   io      "response" (an HTTP response, or the file's bytes), or the
\*           exception the transport raises
\*   status  the HTTP status of the response
\*   bytes   "text"        chardet names an encoding and the bytes decode
\*           "undecodable" chardet names an encoding, decoding fails
\*           "nodetect"    chardet finds no encoding (so for empty bytes)
\*   doc     the document the bytes spell when they decode
Statuses == {200, 404, 503}
NoDoc == [fmt |-> "empty", n |-> 0]
NetFailures == {"ClientError", "TimeoutError"}

Answers(docs) ==
    {[io |-> f, status |-> 0, bytes |-> "nodetect", doc |-> NoDoc] :
        f \in NetFailures \cup {"OSError"}}
    \cup {[io |-> "response", status |-> s, bytes |-> "nodetect", doc |-> NoDoc] :
        s \in Statuses}
    \cup {[io |-> "response", status |-> 200, bytes |-> "undecodable", doc |-> NoDoc]}
    \cup {[io |-> "response", status |-> 200, bytes |-> "text", doc |-> d] :
        d \in {x \in docs : x.fmt # "empty"}}

\* what an address of the given scheme can be answered with
AnswersFor(scheme, docs) ==
    IF scheme \in {"http", "https"}
    THEN {a \in Answers(docs) : a.io # "OSError"}
    ELSE IF scheme = "file"
    THEN {a \in Answers(docs) : a.io \in {"response", "OSError"} /\ a.status \in {0, 200}}
    ELSE {[io |-> "none", status |-> 0, bytes |-> "nodetect", doc |-> NoDoc]}

\* ------------------------------------------------------------ HttpSession
\* the session is built with raise_for_status=True
RaiseForStatus == TRUE

\* a variant whose except clause names ClientError's subclasses one by one
\* and leaves out ClientResponseError
ClientErrorsNarrow == {"ClientError"}

\* aiohttp exceptions that are ClientError
ClientErrors == {"ClientError", "ClientResponseError"}

\* ClientSession.get as the session configures it: the transport's exception,
\* or ClientResponseError for a status of 400 and above, or the response
SessionGet(ans) ==
    IF ans.io # "response" THEN Raise(ans.io)
    ELSE IF RaiseForStatus /\ ans.status >= 400 THEN Raise("ClientResponseError")
    ELSE Ok(ans)

\* str(chardet.detect(bytes)['encoding']) or 'utf-8'
DetectedEncoding(ans) ==
    LET detected == IF ans.bytes = "nodetect" THEN "None" ELSE "utf-8"  \* str(...)
    IN IF detected # "" THEN detected ELSE "utf-8"

\* a variant that lets the exception of bytes.decode through
DecodeUnwrapped(ans) ==
    LET encoding == DetectedEncoding(ans)
    IN IF encoding = "None" THEN Raise("LookupError")
       ELSE IF ans.bytes = "undecodable" THEN Raise("UnicodeDecodeError")
       ELSE Ok(ans.doc)

\* lines 193-203: detect the encoding and decode
Decode(ans) ==
    LET encoding == DetectedEncoding(ans)
    IN IF encoding = "None" THEN Raise("HttpSessionDecodeError")      \* LookupError
       ELSE IF ans.bytes = "undecodable" THEN Raise("HttpSessionDecodeError")
       ELSE Ok(ans.doc)

\* line 141: urlparse(url); it raises ValueError for unmatched square
\* brackets in the network location
UrlParse(url) == IF url.netloc_ok THEN Ok(url) ELSE Raise("ValueError")

\* the I/O get_decoded_url starts for an address: a request through the
\* session, the opening of a file, or none
FirstIo(url) ==
    IF ~UrlParse(url).ok THEN "none"
    ELSE IF url.scheme \in {"http", "https"} THEN "request"
    ELSE IF url.scheme = "file" THEN "open"
    ELSE "none"

\* get_decoded_url(url) when the world answers ans
GetDecodedUrl(url, ans) ==
    IF ~UrlParse(url).ok THEN Raise("ValueError")
    ELSE IF url.scheme \in {"http", "https"}
    THEN LET r == SessionGet(ans)
         IN IF ~r.ok
            THEN IF r.exc \in ClientErrors \cup {"TimeoutError"}
                 THEN Raise("HttpSessionTechnicalError")
                 ELSE Raise(r.exc)
            ELSE IF 500 <= ans.status /\ ans.status < 600
                 THEN Raise("HttpSessionTechnicalError")
            ELSE IF 400 <= ans.status /\ ans.status < 500
                 THEN Raise("HttpSessionResponseError")
            ELSE Decode(ans)
    ELSE IF url.scheme = "file"
    THEN IF ans.io # "response" THEN Raise("HttpSessionResponseError")
         ELSE Decode(ans)
    ELSE Raise("HttpSessionArgumentError")

\* -------------------------------------------------------- index documents
\* An index as the sitemap parsers see it.
\*   empty      ""                     garbage  neither XML nor JSON
\*   xml        a sitemaps.org document whose i-th <loc> has scheme locs[i]
\*   openagrar  {"response": {"docs": [{"id": ..} * n]}}
\*   publisso   [{"@id": ..} * n]
\*   thunen     {"resources": [record * n]}
\*   thunen1    {"resources": record}   (one object where a list is expected)
\*   object     a JSON object with none of the keys above
LocPatterns ==
    UNION {[1..k -> {"https"}] : k \in 0..MaxUrls}
    \cup {[i \in 1..k |-> IF i = 1 THEN s ELSE "https"] :
            k \in 1..MaxUrls, s \in {"file", "ftp"}}

IndexDocs ==
    {[fmt |-> f, n |-> 0, locs |-> <<>>] : f \in {"empty", "garbage", "object"}}
    \cup {[fmt |-> "xml", n |-> Len(l), locs |-> l] : l \in LocPatterns}
    \cup {[fmt |-> f, n |-> k, locs |-> <<>>] :
            f \in {"openagrar", "publisso"}, k \in 0..MaxUrls}
    \cup {[fmt |-> "thunen", n |-> k, locs |-> <<>>] : k \in 0..MaxRecords}
    \cup {[fmt |-> "thunen1", n |-> 1, locs |-> <<>>]}

JsonFmts == {"openagrar", "publisso", "thunen", "thunen1", "object"}
JsonDictFmts == {"openagrar", "thunen", "thunen1", "object"}

\* --------------------------------------------------------- sitemap parsers
\* SitemapParserXml.datasets: ElementTree.fromstring, then every <loc>
XmlDatasets(content) ==
    IF content.fmt # "xml" THEN Raise("ParseError")
    ELSE Ok([i \in 1..Len(content.locs) |-> Url(content.locs[i], i)])

\* SitemapParserOpenAgrar.datasets: BASE_URL + id for every doc of the response
OpenAgrarDatasets(content) ==
    IF content.fmt \notin JsonFmts THEN Raise("JSONDecodeError")
    ELSE IF content.fmt = "openagrar" THEN Ok([i \in 1..content.n |-> Url("https", i)])
    ELSE IF content.fmt \in JsonDictFmts THEN Raise("KeyError")
    ELSE Raise("TypeError")

\* SitemapParserPublisso.datasets is a plain method that takes the content,
\* not a property: list(parser.datasets) is list() of a bound method
PublissoDatasets(content) == Raise("TypeError")

\* SitemapParser.datasets, the default: yields nothing
DefaultDatasets(content) == Ok(<<>>)

\* SitemapParserThunenAtlas.get_metadata: json_objs['resources'], a list
\* (is_list) or the single object items[1]
ThunenGetMetadata(content) ==
    IF content.fmt \notin JsonFmts THEN Raise("SitemapParseError")
    ELSE IF content.fmt \in {"thunen", "thunen1"}
         THEN Ok([is_list |-> content.fmt = "thunen", items |-> RecsOf(0, content.n)])
    ELSE IF content.fmt \in JsonDictFmts THEN Raise("KeyError")
    ELSE Raise("TypeError")

\* SitemapParser.get_metadata, the default: []
DefaultGetMetadata(content) == Ok([is_list |-> TRUE, items |-> <<>>])

SitemapParserClasses ==
    {"SitemapParserXml", "SitemapParserOpenAgrar", "SitemapParserPublisso",
     "SitemapParserThunenAtlas"}

\* parser.has_metadata
HasMetadata(parser) == parser.class = "SitemapParserThunenAtlas"

\* parser.get_metadata()
GetMetadata(parser) ==
    IF parser.class = "SitemapParserThunenAtlas" THEN ThunenGetMetadata(parser.content)
    ELSE DefaultGetMetadata(parser.content)

\* parser.metadata: empty content is an error, a single object is wrapped
\* into a one-element list
ParserMetadata(parser) ==
    IF parser.content.fmt = "empty" THEN Raise("SitemapParseError")
    ELSE LET m == GetMetadata(parser)
         IN IF ~m.ok THEN m
            ELSE IF ~m.val.is_list THEN Ok(PyList(<<m.val.items[1]>>))
            ELSE Ok(PyList(m.val.items))

\* list(parser.datasets)
ParserDatasets(parser) ==
    CASE parser.class = "SitemapParserXml" -> XmlDatasets(parser.content)
      [] parser.class = "SitemapParserOpenAgrar" -> OpenAgrarDatasets(parser.content)
      [] parser.class = "SitemapParserPublisso" -> PublissoDatasets(parser.content)
      [] OTHER -> DefaultDatasets(parser.content)

\* ------------------------------------------------------ metadata extractors
\* json.loads(content) for the page found at url: the parsed value is a list
\* (is_list) or the single object items[1]
JsonLoads(content, url) ==
    CASE content.fmt = "array" -> Ok([is_list |-> TRUE, items |-> RecsOf(url.id, content.n)])
      [] content.fmt = "object" -> Ok([is_list |-> FALSE, items |-> <<Rec(url.id, 1)>>])
      [] content.fmt = "deep" -> Raise("RecursionError")
      [] OTHER -> Raise("JSONDecodeError")

\* a variant that hands a bare object back as it is, its items being the
\* object's own
JsonldMetadataUnwrapped(content, url) ==
    IF content.fmt = "empty" THEN Raise("MetadataParseError")
    ELSE LET j == JsonLoads(content, url)
         IN IF ~j.ok
            THEN IF j.exc = "JSONDecodeError" THEN Raise("MetadataParseError") ELSE j
            ELSE IF ~j.val.is_list THEN Ok(PyDict(j.val.items[1]))
            ELSE Ok(PyList(j.val.items))

\* a variant for which empty content is an empty result
JsonldMetadataEmptyOk(content, url) ==
    IF content.fmt = "empty" THEN Ok(PyList(<<>>))
    ELSE LET j == JsonLoads(content, url)
         IN IF ~j.ok
            THEN IF j.exc = "JSONDecodeError" THEN Raise("MetadataParseError") ELSE j
            ELSE IF ~j.val.is_list THEN Ok(PyList(<<j.val.items[1]>>))
            ELSE Ok(PyList(j.val.items))

\* MetadataExtractorJsonld.metadata: json.loads, a bare object is wrapped
JsonldMetadata(content, url) ==
    IF content.fmt = "empty" THEN Raise("MetadataParseError")
    ELSE LET j == JsonLoads(content, url)
         IN IF ~j.ok
            THEN IF j.exc = "JSONDecodeError" THEN Raise("MetadataParseError") ELSE j
            ELSE IF ~j.val.is_list THEN Ok(PyList(<<j.val.items[1]>>))
            ELSE Ok(PyList(j.val.items))

\* MetadataExtractorEmbeddedJsonld.metadata: extruct over the ld+json scripts
EmbeddedJsonldMetadata(content, url) ==
    CASE content.fmt \in {"empty", "badhtml"} -> Raise("MetadataParseError")
      [] content.fmt = "html" -> Ok(PyList(RecsOf(url.id, content.n)))
      [] OTHER -> Ok(PyList(<<>>))

\* extractor.metadata(content, url)
ExtractorMetadata(extractor, content, url) ==
    IF extractor = "MetadataExtractorJsonld" THEN JsonldMetadata(content, url)
    ELSE EmbeddedJsonldMetadata(content, url)

\* the text of the ld+json script of an HTML page
ScriptText(content) == [script_of |-> content]

\* extractor.raw_metadata(content): the plain extractor hands back the content
\* itself, the embedded one the texts of the ld+json scripts BeautifulSoup
\* finds
RawMetadata(extractor, content) ==
    IF extractor = "MetadataExtractorJsonld" THEN Ok(<<content>>)
    ELSE IF content.fmt = "badhtml" \/ (content.fmt = "html" /\ content.n > 0)
    THEN Ok(<<ScriptText(content)>>)
    ELSE Ok(<<>>)

\* a variant without the except clause
GetMetadataOrLogErrorNoCatch(extractor, content, url) ==
    ExtractorMetadata(extractor, content, url)

\* get_metadata_or_log_error: on MetadataParseError the raw metadata are read
\* for the log and None is returned; anything else metadata() raises is
\* raised on
GetMetadataOrLogError(extractor, content, url) ==
    LET m == ExtractorMetadata(extractor, content, url)
    IN IF ~m.ok /\ m.exc = "MetadataParseError"
       THEN LET raw == RawMetadata(extractor, content)
            IN IF raw.ok THEN Ok(PyNone) ELSE raw
       ELSE m

\* ---------------------------------------------------------------- registry
\* RegisteringABC._implementations after the modules are imported: one
\* dictionary, written through RegisteringABC by every register_implementation
Implementations ==
    [id \in {"xml", "openagrar", "publisso", "thunen_atlas", "jsonld", "embedded_jsonld"} |->
        CASE id = "xml" -> "SitemapParserXml"
          [] id = "openagrar" -> "SitemapParserOpenAgrar"
          [] id = "publisso" -> "SitemapParserPublisso"
          [] id = "thunen_atlas" -> "SitemapParserThunenAtlas"
          [] id = "jsonld" -> "MetadataExtractorJsonld"
          [] OTHER -> "MetadataExtractorEmbeddedJsonld"]

\* create_instance(identifier): the registered class, or ValueError
CreateInstance(identifier) ==
    IF identifier \in DOMAIN Implementations
    THEN Ok(Implementations[identifier])
    ELSE Raise("ValueError")

\* SitemapParser.create_instance(config.sitemap, sitemap_content): the class
\* is constructed with the content (SitemapParser.__init__(content)); a class
\* whose constructor takes no content raises TypeError
CreateParser(identifier, content) ==
    LET c == CreateInstance(identifier)
    IN IF ~c.ok THEN c
       ELSE IF c.val \in SitemapParserClasses
            THEN Ok([class |-> c.val, content |-> content])
       ELSE Raise("TypeError")

\* MetadataExtractor.create_instance(config.metadata): constructed without
\* arguments; a sitemap parser class needs its content and raises TypeError
CreateExtractor(identifier) ==
    LET c == CreateInstance(identifier)
    IN IF ~c.ok THEN c
       ELSE IF c.val \notin SitemapParserClasses THEN c
       ELSE Raise("TypeError")

\* ------------------------------------------------------------ the fan-out
\* what one fan-out task ends with: a list, None, or an exception
TaskList(items) == [kind |-> "list", items |-> items, exc |-> "-"]
TaskNone == [kind |-> "None", items |-> <<>>, exc |-> "-"]
TaskExc(e) == [kind |-> "exc", items |-> <<>>, exc |-> e]

\* a variant that absorbs every fetch error
ExtractMetadataAbsorbAll(url, ans, extractor) ==
    LET c == GetDecodedUrl(url, ans)
    IN IF ~c.ok
       THEN IF c.exc \in FetchErrors THEN TaskNone ELSE TaskExc(c.exc)
       ELSE LET m == GetMetadataOrLogError(extractor, c.val, url)
            IN IF ~m.ok THEN TaskExc(m.exc)
               ELSE IF m.val.is_none THEN TaskNone ELSE TaskList(m.val.items)

\* _extract_metadata(url, session, extractor) when the world answers ans
ExtractMetadata(url, ans, extractor) ==
    LET c == GetDecodedUrl(url, ans)
    IN IF ~c.ok
       THEN IF c.exc \in {"HttpSessionResponseError", "HttpSessionDecodeError"}
            THEN TaskNone
            ELSE TaskExc(c.exc)
       ELSE LET m == GetMetadataOrLogError(extractor, c.val, url)
            IN IF ~m.ok THEN TaskExc(m.exc)
               ELSE IF m.val.is_none THEN TaskNone ELSE TaskList(m.val.items)

\* itertools.chain.from_iterable over the results that are lists
RECURSIVE Flatten(_)
Flatten(datasets) ==
    IF datasets = <<>> THEN <<>>
    ELSE (IF Head(datasets).kind = "list" THEN Head(datasets).items ELSE <<>>)
         \o Flatten(Tail(datasets))

Pair(records, report) == [kind |-> "pair", records |-> records, report |-> report]

\* a variant that counts the results that are not lists as failed
ExtractManyCountNone(datasets) ==
    IF \E i \in DOMAIN datasets : datasets[i].kind = "exc"
    THEN Pair(PyNone, SKIP_RDI_REPORT)
    ELSE LET result == Flatten(datasets)
         IN Pair(PyList(result),
                 [valid_entries |-> Len(result),
                  failed_entries |-> Cardinality({i \in DOMAIN datasets :
                                                    datasets[i].kind # "list"}),
                  skipped |-> FALSE])

\* a variant that drops the results that are exceptions like the None ones
ExtractManyIgnoreExc(datasets) ==
    LET result == Flatten(datasets)
    IN Pair(PyList(result),
            [valid_entries |-> Len(result),
             failed_entries |-> Len(datasets) - Len(result),
             skipped |-> FALSE])

\* _extract_many_metadata after gather(..., return_exceptions=True) gave datasets
ExtractManyMetadata(datasets) ==
    IF \E i \in DOMAIN datasets : datasets[i].kind = "exc"
    THEN Pair(PyNone, SKIP_RDI_REPORT)
    ELSE LET result == Flatten(datasets)
         IN Pair(PyList(result),
                 [valid_entries |-> Len(result),
                  failed_entries |-> Len(datasets) - Len(result),
                  skipped |-> FALSE])

\* ------------------------------------------------------------ scrape_repo
\* what scrape_repo hands to its caller
BareList(records) == [kind |-> "list", records |-> records]
Raised(e) == [kind |-> "raise", exc |-> e]
NoReturn == [kind |-> "-"]

\* a variant whose except clause names the fetch errors one by one and
\* leaves out the argument error
CaughtWithoutArgumentError ==
    {"HttpSessionTechnicalError", "HttpSessionResponseError", "HttpSessionDecodeError",
     "SitemapParseError", "MetadataParseError"}

\* the except clause of scrape_repo
CaughtByScrapeRepo == FetchErrors \cup {"SitemapParseError", "MetadataParseError"}

\* an exception inside the try block: caught ones fall through to the final
\* return None, SKIP_RDI_REPORT, the others leave scrape_repo
AfterException(e) ==
    IF e \in CaughtByScrapeRepo THEN Pair(PyNone, SKIP_RDI_REPORT) ELSE Raised(e)

NoContent == [fmt |-> "None", n |-> 0, locs |-> <<>>]
NoParser == [class |-> "None", content |-> NoContent]
Pending == [kind |-> "-", items |-> <<>>, exc |-> "-"]
Queued == [st |-> "queued", res |-> Pending, status |-> 0, fetch |-> "-", extract |-> "-"]

\* a variant that wraps the parser's metadata into the pair with its report
HasMetadataReturnPair(records) ==
    Pair(records, [valid_entries |-> Len(records.items), failed_entries |-> 0,
                   skipped |-> FALSE])

\* line 175: return parser.metadata
HasMetadataReturn(records) == BareList(records)

\* a variant whose missing extractor ends with an empty, not skipped, result
NoExtractorReturnEmpty ==
    Pair(PyList(<<>>), [valid_entries |-> 0, failed_entries |-> 0, skipped |-> FALSE])

\* lines 178 and 189: without config.metadata the function falls through to
\* its last line
NoExtractorReturn == Pair(PyNone, SKIP_RDI_REPORT)

Step(pc_, parser_, urls_, extractor_, ret_, parse_) ==
    [pc |-> pc_, parser |-> parser_, urls |-> urls_, extractor |-> extractor_,
     ret |-> ret_, index_parse |-> parse_]

\* lines 172-181 of scrape_repo, from the fetched index up to the fan-out
ScrapeAfterFetch(cfg, content) ==
    LET p == CreateParser(cfg.sitemap, content)
    IN IF ~p.ok
       THEN Step("done", NoParser, <<>>, "None", AfterException(p.exc), "-")
       ELSE IF HasMetadata(p.val)
       THEN LET m == ParserMetadata(p.val)
            IN IF m.ok
               THEN Step("done", p.val, <<>>, "None", HasMetadataReturn(m.val), "ok")
               ELSE Step("done", p.val, <<>>, "None", AfterException(m.exc), m.exc)
       ELSE LET d == ParserDatasets(p.val)
            IN IF ~d.ok
               THEN Step("done", p.val, <<>>, "None", AfterException(d.exc), d.exc)
               ELSE IF cfg.metadata = "None"
               THEN Step("done", p.val, d.val, "None", NoExtractorReturn, "ok")
               ELSE LET e == CreateExtractor(cfg.metadata)
                    IN IF ~e.ok
                       THEN Step("done", p.val, d.val, "None", AfterException(e.exc), "ok")
                       ELSE Step("fanout", p.val, d.val, e.val, NoReturn, "ok")

\* -------------------------------------------------------------- the state
VARIABLES
    config,          \* the MetadataScraperConfig of the harvest
    pc,              \* where scrape_repo stands
    index_fetch,     \* "-", "ok", or the exception the index fetch raised
    index_parse,     \* "-", "ok", or the exception reading the parser raised
    sitemap_content, \* the decoded index
    parser,          \* the SitemapParser instance
    extractor,       \* the MetadataExtractor instance
    urls,            \* list(parser.datasets)
    tasks,           \* the fan-out tasks, one per element of urls
    ret,             \* what scrape_repo returned or raised
    run,             \* the run of main over config['sitemaps']
    call,            \* one call of get_decoded_url, step by step
    reg,             \* the class registry and the instances created from it
    ext              \* one use of an extractor or of a parser's metadata

harvest_vars == <<config, pc, index_fetch, index_parse, sitemap_content, parser,
                  extractor, urls, tasks, ret>>

vars == <<config, pc, index_fetch, index_parse, sitemap_content, parser,
          extractor, urls, tasks, ret, run, call, reg, ext>>

\* the values of run, call and reg while they are not in use
NoRun == [status |-> "-"]
NoCall == [st |-> "-"]
NoReg == [st |-> "-"]
NoExt == [st |-> "-"]

IndexSchemes == {"http", "file", "ftp"}
SitemapIds == {"xml", "openagrar", "publisso", "thunen_atlas", "jsonld", "nope"}
MetadataIds == {"None", "jsonld", "embedded_jsonld", "xml", "nope"}

Configs ==
    [url : {Url(s, 0) : s \in IndexSchemes}, sitemap : SitemapIds,
     metadata : MetadataIds, connection_limit : 0..MaxConnectionLimit]

Init ==
    /\ config \in Configs
    /\ pc = "fetch_index"
    /\ index_fetch = "-"
    /\ index_parse = "-"
    /\ sitemap_content = NoContent
    /\ parser = NoParser
    /\ extractor = "None"
    /\ urls = <<>>
    /\ tasks = <<>>
    /\ ret = NoReturn
    /\ run = NoRun
    /\ call = NoCall
    /\ reg = NoReg
    /\ ext = NoExt

\* line 171: sitemap_content = await session.get_decoded_url(config.url)
FetchIndex ==
    /\ pc = "fetch_index"
    /\ \E ans \in AnswersFor(config.url.scheme, IndexDocs) :
        LET c == GetDecodedUrl(config.url, ans)
        IN IF c.ok
           THEN /\ sitemap_content' = c.val
                /\ index_fetch' = "ok"
                /\ pc' = "parse_index"
                /\ ret' = ret
           ELSE /\ sitemap_content' = sitemap_content
                /\ index_fetch' = c.exc
                /\ pc' = "done"
                /\ ret' = AfterException(c.exc)
    /\ UNCHANGED <<run, call, reg, ext, config, index_parse, parser, extractor, urls, tasks>>

\* lines 172-180: create the parser, read it, create the extractor and hand
\* one _extract_metadata coroutine per address to gather
ParseIndex ==
    /\ pc = "parse_index"
    /\ LET s == ScrapeAfterFetch(config, sitemap_content)
       IN /\ pc' = s.pc
          /\ parser' = s.parser
          /\ urls' = s.urls
          /\ extractor' = s.extractor
          /\ ret' = s.ret
          /\ index_parse' = s.index_parse
          /\ tasks' = IF s.pc = "fanout" THEN [i \in 1..Len(s.urls) |-> Queued] ELSE <<>>
    /\ UNCHANGED <<run, call, reg, ext, config, index_fetch, sitemap_content>>

InFlight == {i \in DOMAIN tasks : tasks[i].st = "inflight"}

\* a variant of the connector that hands out a connection to every request
MayRequestAlways(inflight, limit) == TRUE

\* TCPConnector(limit=connection_limit): a request gets a connection while
\* fewer than limit are handed out; a limit of 0 is no limit
MayRequest(inflight, limit) == limit = 0 \/ inflight < limit

\* a task asks the session for its address; the connector hands out at most
\* connection_limit connections, a request beyond that waits
TaskRequest(i) ==
    /\ pc = "fanout"
    /\ tasks[i].st = "queued"
    /\ urls[i].scheme \in {"http", "https"}
    /\ MayRequest(Cardinality(InFlight), config.connection_limit)
    /\ tasks' = [tasks EXCEPT ![i].st = "inflight"]
    /\ UNCHANGED <<run, call, reg, ext, config, pc, index_fetch, index_parse, sitemap_content, parser,
                   extractor, urls, ret>>

\* what the fetch of a task raised ("ok" when it returned the text), and what
\* extractor.metadata raised ("-" when the task never came to call it)
FetchOutcome(url, ans) ==
    LET c == GetDecodedUrl(url, ans) IN IF c.ok THEN "ok" ELSE c.exc
ExtractOutcome(url, ans, ex) ==
    LET c == GetDecodedUrl(url, ans)
    IN IF ~c.ok THEN "-"
       ELSE LET m == ExtractorMetadata(ex, c.val, url) IN IF m.ok THEN "ok" ELSE m.exc

Done(i, ans) ==
    [st |-> "done", res |-> ExtractMetadata(urls[i], ans, extractor),
     status |-> ans.status, fetch |-> FetchOutcome(urls[i], ans),
     extract |-> ExtractOutcome(urls[i], ans, extractor)]

\* the answer to a task's request arrives and the task runs to its end
TaskResponse(i) ==
    /\ pc = "fanout"
    /\ tasks[i].st = "inflight"
    /\ \E ans \in AnswersFor(urls[i].scheme, PageDocs) :
        tasks' = [tasks EXCEPT ![i] = Done(i, ans)]
    /\ UNCHANGED <<run, call, reg, ext, config, pc, index_fetch, index_parse, sitemap_content, parser,
                   extractor, urls, ret>>

\* a task whose address is not http(s): a file is read, any other scheme is
\* refused; the task runs to its end without a connection
TaskLocal(i) ==
    /\ pc = "fanout"
    /\ tasks[i].st = "queued"
    /\ urls[i].scheme \notin {"http", "https"}
    /\ \E ans \in AnswersFor(urls[i].scheme, PageDocs) :
        tasks' = [tasks EXCEPT ![i] = Done(i, ans)]
    /\ UNCHANGED <<run, call, reg, ext, config, pc, index_fetch, index_parse, sitemap_content, parser,
                   extractor, urls, ret>>

\* a variant of gather that returns with the first exception of a task
GatherReturnsOnException(ts) ==
    \/ \A i \in DOMAIN ts : ts[i].st = "done"
    \/ \E i \in DOMAIN ts : ts[i].st = "done" /\ ts[i].res.kind = "exc"

\* asyncio.gather(*extractors, return_exceptions=True) returns when every
\* task has ended, with its value or with its exception
GatherReturns(ts) == \A i \in DOMAIN ts : ts[i].st = "done"

\* gather returns once every task has ended; lines 122-137 and 181
Join ==
    /\ pc = "fanout"
    /\ GatherReturns(tasks)
    /\ ret' = ExtractManyMetadata([i \in DOMAIN tasks |-> tasks[i].res])
    /\ pc' = "done"
    /\ UNCHANGED <<run, call, reg, ext, config, index_fetch, index_parse, sitemap_content, parser,
                   extractor, urls, tasks>>

Next ==
    \/ FetchIndex
    \/ ParseIndex
    \/ \E i \in DOMAIN tasks : TaskRequest(i)
    \/ \E i \in DOMAIN tasks : TaskResponse(i)
    \/ \E i \in DOMAIN tasks : TaskLocal(i)
    \/ Join

Spec == Init /\ [][Next]_vars

\* ------------------------------------------------------------------- main
\* A run of main over config['sitemaps'].  A harvest is one step of the run:
\* the harvests follow one another, and what scrape_repo hands back depends
\* only on what the world answered, not on the order its tasks ended in.
MaxRepos == 2          \* most repositories of a run

\* scrape_repo(cfg) when the world answers ians for the index and tans[i] for
\* the i-th dataset address
ScrapeRepo(cfg, ians, tans) ==
    LET c == GetDecodedUrl(cfg.url, ians)
    IN IF ~c.ok THEN AfterException(c.exc)
       ELSE LET s == ScrapeAfterFetch(cfg, c.val)
            IN IF s.pc = "done" THEN s.ret
               ELSE ExtractManyMetadata(
                        [i \in 1..Len(s.urls) |->
                            ExtractMetadata(s.urls[i], tans[i], s.extractor)])

\* the number of addresses the fan-out of scrape_repo(cfg) runs over
FanoutSize(cfg, ians) ==
    LET c == GetDecodedUrl(cfg.url, ians)
    IN IF ~c.ok THEN 0
       ELSE LET s == ScrapeAfterFetch(cfg, c.val)
            IN IF s.pc = "done" THEN 0 ELSE Len(s.urls)

\* Python's truth value of what scrape_repo handed back as metadata
Truthy(v) ==
    IF v.is_none THEN FALSE
    ELSE IF "items" \in DOMAIN v THEN v.items # <<>>
    ELSE TRUE

\* line 114 of main.py: metadata, report = await scrape_repo(...)
\* a pair unpacks; a bare list unpacks only when it has two elements, which
\* then are two records
Unpack(r) ==
    IF r.kind = "raise" THEN Raise(r.exc)
    ELSE IF r.kind = "pair" THEN Ok([metadata |-> r.records, report |-> r.report])
    ELSE IF Len(r.records.items) = 2
    THEN Ok([metadata |-> PyDict(r.records.items[1]),
             report |-> [record |-> r.records.items[2]]])
    ELSE Raise("ValueError")

\* a file path is the name of the file without its ".json"; a name is the
\* sequence of its words
NoPath == <<>>

\* scrape_repo_and_write_to_file: the path written (or None) and the report
ScrapeRepoAndWriteToFile(name, r) ==
    LET u == Unpack(r)
    IN IF ~u.ok THEN u
       ELSE IF Truthy(u.val.metadata)
       THEN Ok([path |-> name, metadata |-> u.val.metadata, report |-> u.val.report])
       ELSE Ok([path |-> NoPath, metadata |-> u.val.metadata, report |-> u.val.report])

\* word in name
NameContains(name, word) == \E i \in DOMAIN name : name[i] = word

\* {"repo_name": name, **report}
Entry(name, report) ==
    IF "record" \in DOMAIN report
    THEN [repo_name |-> name, record |-> report.record]
    ELSE [repo_name |-> name, valid_entries |-> report.valid_entries,
          failed_entries |-> report.failed_entries, skipped |-> report.skipped]

Processed(paths, reports, commit) ==
    [paths |-> paths, reports |-> reports, commit |-> commit]

\* transform_publisso_to_publisso_schemaorg(input_file, original_report), the
\* input file being the one just written
TransformPublisso(report) ==
    Processed(<<<<"publisso">>>>, <<Entry(<<"publisso">>, report)>>, TRUE)

\* extract_thunen_from_openagrar_metadata(input_file) when k of the n records
\* of the file name a Thuenen publisher
ExtractThunen(n, k) ==
    Processed(<<<<"thunen_atlas">>, <<"openagrar">>>>,
              <<[repo_name |-> <<"thunen_atlas">>, valid_entries |-> k,
                 failed_entries |-> 0, skipped |-> FALSE],
                [repo_name |-> <<"openagrar">>, valid_entries |-> n - k,
                 failed_entries |-> 0, skipped |-> FALSE]>>,
              TRUE)

\* the number of records in the file written
Written(metadata) == IF "items" \in DOMAIN metadata THEN Len(metadata.items) ELSE 1

\* lines 358-377 of process_sitemap, after scrape_repo_and_write_to_file
\* returned w
PostProcess(sitemap, w, k) ==
    IF w.path # NoPath
    THEN IF NameContains(sitemap.name, "publisso") THEN TransformPublisso(w.report)
         ELSE IF NameContains(sitemap.name, "openagrar")
         THEN ExtractThunen(Written(w.metadata), k)
         ELSE Processed(<<w.path>>, <<Entry(sitemap.name, w.report)>>, sitemap.commit)
    ELSE Processed(<<>>, <<Entry(sitemap.name, w.report)>>, FALSE)

\* the ways the records of the written file split between the Thuenen
\* publisher and the others
Splits(sitemap, w) ==
    IF w.path # NoPath /\ ~NameContains(sitemap.name, "publisso")
       /\ NameContains(sitemap.name, "openagrar")
    THEN 0..Written(w.metadata)
    ELSE {0}

RECURSIVE SeqToSet(_)
SeqToSet(s) == IF s = <<>> THEN {} ELSE {Head(s)} \cup SeqToSet(Tail(s))

\* one entry of config['sitemaps']
Sitemap(name, commit, url, sitemap, metadata) ==
    [name |-> name, commit |-> commit,
     cfg |-> [url |-> url, sitemap |-> sitemap, metadata |-> metadata,
              connection_limit |-> 1]]

MainSitemaps ==
    {Sitemap(<<"bonares">>, TRUE, Url("https", 0), "xml", "jsonld"),
     Sitemap(<<"edal">>, FALSE, Url("https", 0), "xml", "embedded_jsonld"),
     Sitemap(<<"publisso", "frl">>, FALSE, Url("https", 0), "xml", "jsonld"),
     Sitemap(<<"openagrar">>, TRUE, Url("https", 0), "openagrar", "jsonld"),
     Sitemap(<<"thunen_atlas">>, TRUE, Url("https", 0), "thunen_atlas", "None"),
     Sitemap(<<"newrepo">>, TRUE, Url("https", 0), "nope", "jsonld")}

\* the lists of distinct repositories a run is configured with
MainConfigs ==
    {l \in UNION {[1..k -> MainSitemaps] : k \in 1..MaxRepos} :
        \A i, j \in DOMAIN l : l[i] = l[j] => i = j}

\* what the dataset pages of a run answer
MainAnswers ==
    {a \in Answers(PageDocs) :
        /\ a.io = "response"
        /\ a.status \in {200, 404}
        /\ a.status = 200 => (a.bytes = "text" /\ a.doc.fmt \in {"object", "deep"})}

\* lines 388-391: the state of the run when the loop starts
MainInit ==
    /\ \E l \in MainConfigs, git \in BOOLEAN :
        run = [status |-> "running", sitemaps |-> l, git |-> git, cur |-> 1,
               full_report |-> <<>>, files |-> {}, wrote |-> <<>>, commits |-> <<>>,
               harvests |-> <<>>, written |-> <<>>, committed |-> <<>>,
               pushed |-> FALSE, output |-> <<>>, raised |-> "-"]
    /\ config = run.sitemaps[1].cfg
    /\ pc = "fetch_index"
    /\ index_fetch = "-"
    /\ index_parse = "-"
    /\ sitemap_content = NoContent
    /\ parser = NoParser
    /\ extractor = "None"
    /\ urls = <<>>
    /\ tasks = <<>>
    /\ ret = NoReturn
    /\ call = NoCall
    /\ reg = NoReg
    /\ ext = NoExt

\* what the run remembers of a harvest: how scrape_repo ended, and whether it
\* handed back a collection of records that is not empty
NonEmptyRecords(r) ==
    r.kind \in {"pair", "list"} /\ ~r.records.is_none /\ r.records.items # <<>>
Harvest(r) == [kind |-> r.kind, nonempty |-> NonEmptyRecords(r)]

\* the files a repository leaves: the one scrape_repo_and_write_to_file
\* wrote and the ones the post-processing wrote
FilesOf(p, path) == (IF path = NoPath THEN {} ELSE {path}) \cup SeqToSet(p.paths)

\* a variant that puts the entries of a repository in front of the report
ExtendedInFront(r, p, path, h) ==
    [r EXCEPT !.cur = @ + 1,
              !.full_report = p.reports \o @,
              !.files = @ \cup FilesOf(p, path),
              !.wrote = Append(@, path # NoPath),
              !.harvests = Append(@, h),
              !.written = Append(@, FilesOf(p, path)),
              !.committed = Append(@, IF r.git /\ p.commit THEN SeqToSet(p.paths) ELSE {}),
              !.commits = IF r.git /\ p.commit THEN @ \o p.paths ELSE @]

\* the run after process_sitemap returned p for the current repository
Extended(r, p, path, h) ==
    [r EXCEPT !.cur = @ + 1,
              !.full_report = @ \o p.reports,
              !.files = @ \cup FilesOf(p, path),
              !.wrote = Append(@, path # NoPath),
              !.harvests = Append(@, h),
              !.written = Append(@, FilesOf(p, path)),
              !.committed = Append(@, IF r.git /\ p.commit THEN SeqToSet(p.paths) ELSE {}),
              !.commits = IF r.git /\ p.commit THEN @ \o p.paths ELSE @]

\* lines 411-418: an exception anywhere in the try block ends the process
Exited(r, e, h) ==
    [r EXCEPT !.status = "exit1", !.raised = e, !.harvests = Append(@, h)]

\* one turn of the loop of main (lines 393-397): process_sitemap for the
\* current repository, then full_report.extend
ProcessSitemap ==
    /\ run.status = "running"
    /\ run.cur <= Len(run.sitemaps)
    /\ LET sitemap == run.sitemaps[run.cur]
       IN \E ians \in AnswersFor(sitemap.cfg.url.scheme, IndexDocs) :
          \E tans \in [1..FanoutSize(sitemap.cfg, ians) -> MainAnswers] :
            LET r == ScrapeRepo(sitemap.cfg, ians, tans)
                w == ScrapeRepoAndWriteToFile(sitemap.name, r)
            IN IF ~w.ok THEN run' = Exited(run, w.exc, Harvest(r))
               ELSE \E k \in Splits(sitemap, w.val) :
                        run' = Extended(run, PostProcess(sitemap, w.val, k), w.val.path,
                                        Harvest(r))
    /\ UNCHANGED <<harvest_vars, call, reg, ext>>

\* lines 399-402: after the loop, push and print the report
PrintReport ==
    /\ run.status = "running"
    /\ run.cur > Len(run.sitemaps)
    /\ run' = [run EXCEPT !.status = "printed", !.pushed = run.git,
                          !.output = run.full_report]
    /\ UNCHANGED <<harvest_vars, call, reg, ext>>

MainNext ==
    \/ ProcessSitemap
    \/ PrintReport

MainSpec == MainInit /\ [][MainNext]_vars

\* -------------------------------------------------- one get_decoded_url
\* One call of get_decoded_url followed step by step: the I/O it starts and
\* what it ends with.
FetchSchemes == {"http", "https", "file", "ftp"}

FetchUrls ==
    {Url(s, i) : s \in FetchSchemes, i \in 0..MaxUrls}
    \cup {BadUrl(s, i) : s \in FetchSchemes, i \in 0..MaxUrls}

NoAnswer == [io |-> "none", status |-> 0, bytes |-> "nodetect", doc |-> NoDoc]
NoResult == [ok |-> FALSE, val |-> PyNone, exc |-> "-"]

FetchInit ==
    /\ \E u \in FetchUrls :
        call = [st |-> "called", url |-> u, io |-> <<>>, ans |-> NoAnswer,
                result |-> NoResult]
    /\ config \in {c \in Configs : c.url = Url("http", 0) /\ c.sitemap = "xml"
                                    /\ c.metadata = "jsonld" /\ c.connection_limit = 1}
    /\ pc = "fetch_index"
    /\ index_fetch = "-"
    /\ index_parse = "-"
    /\ sitemap_content = NoContent
    /\ parser = NoParser
    /\ extractor = "None"
    /\ urls = <<>>
    /\ tasks = <<>>
    /\ ret = NoReturn
    /\ run = NoRun
    /\ reg = NoReg
    /\ ext = NoExt

\* lines 141-191 up to the first await: the address is parsed and its scheme
\* looked at; the request is sent, or the file opened, or the call ends
Dispatch ==
    /\ call.st = "called"
    /\ LET op == FirstIo(call.url)
       IN IF op = "none"
          THEN call' = [call EXCEPT !.st = "done",
                                    !.result = GetDecodedUrl(call.url, NoAnswer)]
          ELSE call' = [call EXCEPT !.st = op, !.io = Append(@, op)]
    /\ UNCHANGED <<harvest_vars, run, reg, ext>>

\* the world answers the request or the read, and the call runs to its end
Respond ==
    /\ call.st \in {"request", "open"}
    /\ \E ans \in AnswersFor(call.url.scheme, PageDocs) :
        call' = [call EXCEPT !.st = "done", !.ans = ans,
                             !.result = GetDecodedUrl(call.url, ans)]
    /\ UNCHANGED <<harvest_vars, run, reg, ext>>

FetchNext ==
    \/ Dispatch
    \/ Respond

FetchSpec == FetchInit /\ [][FetchNext]_vars

\* ------------------------------------------------------- RegisteringABC
\* The registry followed through register_implementation and create_instance
\* calls: reg.impl is RegisteringABC._implementations, reg.objects the
\* instances constructed so far (an object is its index), reg.log the
\* register_implementation calls made, reg.last the last create_instance.
MaxInstances == 2      \* most instances created

RegIds == {"xml", "jsonld"}
RegClasses == {"SitemapParserXml", "SitemapParserOpenAgrar", "MetadataExtractorJsonld"}
Families == {"SitemapParser", "MetadataExtractor"}

\* the base class an implementation class derives from
FamilyOf(class) ==
    IF class \in SitemapParserClasses THEN "SitemapParser" ELSE "MetadataExtractor"

\* RegisteringABC._implementations.get(identifier): the dictionary is the one
\* of RegisteringABC, whatever class the method is called on
Registered(impl, family, identifier) == impl[identifier]

\* family.create_instance(identifier) over the dictionary impl: ValueError
\* without a class; the class is constructed the way its own family is
\* (a parser with the content, an extractor without arguments), so that a
\* class of the other family raises TypeError
CreateInstanceIn(impl, family, identifier) ==
    LET class == Registered(impl, family, identifier)
    IN IF class = "None" THEN Raise("ValueError")
       ELSE IF FamilyOf(class) # family THEN Raise("TypeError")
       ELSE Ok(class)

NoLast == [family |-> "-", identifier |-> "-", registered |-> "None",
           ok |-> FALSE, exc |-> "-", oid |-> 0, known |-> 0]

RegInit ==
    /\ reg = [st |-> "on", impl |-> [id \in RegIds |-> "None"], objects |-> <<>>,
              log |-> {}, last |-> NoLast]
    /\ config \in {c \in Configs : c.url = Url("http", 0) /\ c.sitemap = "xml"
                                    /\ c.metadata = "jsonld" /\ c.connection_limit = 1}
    /\ pc = "fetch_index"
    /\ index_fetch = "-"
    /\ index_parse = "-"
    /\ sitemap_content = NoContent
    /\ parser = NoParser
    /\ extractor = "None"
    /\ urls = <<>>
    /\ tasks = <<>>
    /\ ret = NoReturn
    /\ run = NoRun
    /\ call = NoCall
    /\ ext = NoExt

\* class.register_implementation(identifier)
Register(class, identifier) ==
    /\ reg' = [reg EXCEPT !.impl[identifier] = class,
                          !.log = @ \cup {<<class, identifier>>}]
    /\ UNCHANGED <<harvest_vars, run, call, ext>>

\* family.create_instance(identifier)
Create(family, identifier) ==
    /\ LET c == CreateInstanceIn(reg.impl, family, identifier)
           called == [family |-> family, identifier |-> identifier,
                      registered |-> reg.impl[identifier], known |-> Len(reg.objects)]
       IN IF c.ok
          THEN /\ Len(reg.objects) < MaxInstances
               /\ reg' = [reg EXCEPT
                            !.objects = Append(@, c.val),
                            !.last = called @@ [ok |-> TRUE, exc |-> "-",
                                                oid |-> Len(reg.objects) + 1]]
          ELSE reg' = [reg EXCEPT
                            !.last = called @@ [ok |-> FALSE, exc |-> c.exc, oid |-> 0]]
    /\ UNCHANGED <<harvest_vars, run, call, ext>>

RegNext ==
    \/ \E class \in RegClasses, identifier \in RegIds : Register(class, identifier)
    \/ \E family \in Families, identifier \in RegIds : Create(family, identifier)

RegSpec == RegInit /\ [][RegNext]_vars

\* ------------------------------------------- extractors and parsers alone
\* One use of a metadata extractor, or one read of a sitemap parser's
\* metadata, on a document of any kind.
ExtractorClasses == {"MetadataExtractorJsonld", "MetadataExtractorEmbeddedJsonld"}

NoOutcome == [ok |-> FALSE, val |-> PyNone, exc |-> "-"]

ExtInit ==
    /\ \/ \E e \in ExtractorClasses, d \in PageDocs, i \in 0..MaxUrls :
            ext = [st |-> "input", class |-> e, content |-> d, url |-> Url("https", i),
                   result |-> NoOutcome, raw |-> <<>>]
       \/ \E c \in SitemapParserClasses, d \in IndexDocs :
            ext = [st |-> "input", class |-> c, content |-> d, url |-> Url("https", 0),
                   result |-> NoOutcome, raw |-> <<>>]
    /\ config \in {c \in Configs : c.url = Url("http", 0) /\ c.sitemap = "xml"
                                    /\ c.metadata = "jsonld" /\ c.connection_limit = 1}
    /\ pc = "fetch_index"
    /\ index_fetch = "-"
    /\ index_parse = "-"
    /\ sitemap_content = NoContent
    /\ parser = NoParser
    /\ extractor = "None"
    /\ urls = <<>>
    /\ tasks = <<>>
    /\ ret = NoReturn
    /\ run = NoRun
    /\ call = NoCall
    /\ reg = NoReg

\* extractor.metadata(content, url)
CallMetadata ==
    /\ ext.st = "input"
    /\ ext.class \in ExtractorClasses
    /\ ext' = [ext EXCEPT !.st = "metadata",
                          !.result = ExtractorMetadata(ext.class, ext.content, ext.url)]
    /\ UNCHANGED <<harvest_vars, run, call, reg>>

\* extractor.get_metadata_or_log_error(content, url); raw is what it read
\* from raw_metadata for its log
CallGetMetadataOrLogError ==
    /\ ext.st = "input"
    /\ ext.class \in ExtractorClasses
    /\ LET m == ExtractorMetadata(ext.class, ext.content, ext.url)
           raw == RawMetadata(ext.class, ext.content)
       IN ext' = [ext EXCEPT
                    !.st = "or_log_error",
                    !.result = GetMetadataOrLogError(ext.class, ext.content, ext.url),
                    !.raw = IF ~m.ok /\ m.exc = "MetadataParseError" /\ raw.ok
                            THEN raw.val ELSE <<>>]
    /\ UNCHANGED <<harvest_vars, run, call, reg>>

\* parser.metadata, for a parser constructed with the content
ReadParserMetadata ==
    /\ ext.st = "input"
    /\ ext.class \in SitemapParserClasses
    /\ ext' = [ext EXCEPT
                 !.st = "parser_metadata",
                 !.result = ParserMetadata([class |-> ext.class, content |-> ext.content])]
    /\ UNCHANGED <<harvest_vars, run, call, reg>>

ExtNext ==
    \/ CallMetadata
    \/ CallGetMetadataOrLogError
    \/ ReadParserMetadata

ExtSpec == ExtInit /\ [][ExtNext]_vars

\* --------------------------------------------------- the harvest, fairly
\* The harvest under the scheduling the event loop and the connector give:
\* a step of scrape_repo that can be taken is taken, every request that is in
\* flight is answered (its connect and read timeouts end it otherwise), and a
\* request that waits for a connection gets one when connections keep
\* coming free.
Fairness ==
    /\ WF_vars(FetchIndex)
    /\ WF_vars(ParseIndex)
    /\ WF_vars(Join)
    /\ \A i \in 1..MaxUrls : WF_vars(i \in DOMAIN tasks /\ TaskResponse(i))
    /\ \A i \in 1..MaxUrls : WF_vars(i \in DOMAIN tasks /\ TaskLocal(i))
    /\ \A i \in 1..MaxUrls : SF_vars(i \in DOMAIN tasks /\ TaskRequest(i))

LiveSpec == Spec /\ Fairness

\* ================================================================ claims
\* what gather handed to _extract_many_metadata
Datasets == [i \in DOMAIN tasks |-> tasks[i].res]

\* scrape_repo has ended and its fan-out step ran
FanoutRan == pc = "done" /\ extractor # "None"

ReturnedPair == pc = "done" /\ ret.kind = "pair"
ReturnedSkip == ReturnedPair /\ ret = Pair(PyNone, SKIP_RDI_REPORT)

\* the addresses whose task ended with the "nothing" outcome
NothingTasks == {i \in DOMAIN tasks : tasks[i].res.kind = "None"}
RaisedTasks == {i \in DOMAIN tasks : tasks[i].res.kind = "exc"}

\* C1: a scrape_repo whose fan-out ran over the addresses A and that returns a
\* report with skipped = false has valid_entries + failed_entries = |A|,
\* whatever number of records each address yields.
C1_SumIsAddressCount ==
    (FanoutRan /\ ReturnedPair /\ ~ret.report.skipped)
        => ret.report.valid_entries + ret.report.failed_entries = Len(urls)

\* a not skipped harvest over three addresses, one of them with two records,
\* one with the nothing outcome
C1_Witness ==
    /\ FanoutRan /\ ReturnedPair /\ ~ret.report.skipped
    /\ Len(urls) = 3
    /\ \E i \in DOMAIN tasks : Len(tasks[i].res.items) = 2
    /\ NothingTasks # {}

\* C2 (as claimed): failed_entries is the number of addresses whose task ended
\* with the nothing outcome, and valid_entries the number of flattened records.
C2_FailedCountsNothingTasks ==
    (FanoutRan /\ ReturnedPair /\ ~ret.report.skipped)
        => /\ ret.report.failed_entries = Cardinality(NothingTasks)
           /\ ret.report.valid_entries = Len(Flatten(Datasets))

\* the failure kinds the claim C3 calls expected, as a task met them
MetFetchError(i, kinds) == tasks[i].st = "done" /\ tasks[i].fetch \in kinds
MetParseError(i) == tasks[i].st = "done" /\ tasks[i].extract = "MetadataParseError"

RECURSIVE RecordsExcept(_, _)
RecordsExcept(k, i) ==
    IF k = 0 THEN <<>>
    ELSE RecordsExcept(k - 1, i)
         \o (IF k # i /\ tasks[k].res.kind = "list" THEN tasks[k].res.items ELSE <<>>)

IndexFetchFailed == index_fetch \notin {"-", "ok"}
IndexParseFailed == index_parse \notin {"-", "ok"}

\* C4 (as claimed): the returned report is skipped if and only if the fetch
\* of the index or the parse of the index failed.
C4_SkippedIffIndexFailed ==
    pc = "done" =>
        ((ReturnedPair /\ ret.report.skipped) <=> (IndexFetchFailed \/ IndexParseFailed))

\* C5: a failed fetch of the index, of any fetch failure kind, makes
\* scrape_repo return (None, SKIP_RDI_REPORT) without raising; no parser and no
\* extractor is created and no dataset address is fetched.
C5_IndexFetchFailureSkips ==
    IndexFetchFailed
        => /\ index_fetch \in FetchErrors
           /\ ReturnedSkip
           /\ parser = NoParser /\ extractor = "None"
           /\ urls = <<>> /\ tasks = <<>>

\* the index address has an unsupported scheme and the harvest has ended
C5_Witness ==
    /\ pc = "done"
    /\ index_fetch = "HttpSessionArgumentError"
    /\ config.sitemap = "xml" /\ config.metadata = "jsonld"

\* the index format each sitemap parser class is written for
ExpectedFmts(class) ==
    CASE class = "SitemapParserXml" -> {"xml"}
      [] class = "SitemapParserOpenAgrar" -> {"openagrar"}
      [] class = "SitemapParserPublisso" -> {"publisso"}
      [] OTHER -> {"thunen", "thunen1"}

\* C6 (as claimed): for every registered sitemap parser kind, an index the
\* selected parser cannot parse ends the harvest with (None, SKIP_RDI_REPORT)
\* instead of an exception.
C6_ParseFailureSkips ==
    (pc = "done" /\ parser # NoParser
        /\ parser.content.fmt \notin ExpectedFmts(parser.class))
        => ReturnedSkip

\* C7 (as claimed): when the parser has the metadata, scrape_repo returns the
\* pair of the parser's records and the report {number of records, 0, false},
\* and fetches no dataset address.
C7_HasMetadataReturnsPair ==
    (pc = "done" /\ HasMetadata(parser) /\ index_parse = "ok")
        => /\ ret = HasMetadataReturnPair(ParserMetadata(parser).val)
           /\ tasks = <<>>

\* C8 (as claimed): with the index fetched and parsed, a parser without
\* metadata and no extractor kind, scrape_repo returns an empty collection and
\* the report {0, 0, skipped false}, and fetches no dataset address.
C8_NoExtractorEmptyResult ==
    (pc = "done" /\ index_parse = "ok" /\ ~HasMetadata(parser)
        /\ config.metadata = "None")
        => /\ ret = NoExtractorReturnEmpty
           /\ tasks = <<>>

\* C9: when a fan-out task ends with an exception, the result of the whole
\* repository is discarded: no records, report {0, 0, skipped true}; records
\* the other addresses gave do not appear.
C9_TaskExceptionDiscardsAll ==
    (FanoutRan /\ RaisedTasks # {})
        => /\ ReturnedSkip
           /\ ret.records.is_none /\ ret.records.items = <<>>

\* one task ended with an exception of no fetch or parse kind while another
\* had extracted records
C9_Witness ==
    /\ FanoutRan
    /\ \E i, j \in DOMAIN tasks :
        /\ tasks[i].res = TaskExc("RecursionError")
        /\ Len(tasks[j].res.items) > 0

\* the addresses that answered with an HTTP 4xx status
Answered4xx == {i \in DOMAIN tasks : tasks[i].status >= 400 /\ tasks[i].status < 500}

\* C10 (as claimed): over n addresses of which k answer with HTTP 4xx and the
\* others give one record each, scrape_repo returns n-k records and the report
\* {n-k, k, false}.
C10_NotFoundCountsAsFailed ==
    (FanoutRan /\ \A i \in DOMAIN tasks :
                    \/ i \in Answered4xx
                    \/ tasks[i].res.kind = "list" /\ Len(tasks[i].res.items) = 1)
        => LET n == Len(urls)
               k == Cardinality(Answered4xx)
           IN /\ ReturnedPair
              /\ Len(ret.records.items) = n - k
              /\ ret.report = [valid_entries |-> n - k, failed_entries |-> k,
                               skipped |-> FALSE]

\* ------------------------------------------------------------ the run
RunEnded == run.status \in {"printed", "exit1"}

\* the names process_sitemap gives to the entries of a repository
EntryNames(sitemap) ==
    {sitemap.name}
    \cup (IF NameContains(sitemap.name, "publisso") THEN {<<"publisso">>} ELSE {})
    \cup (IF NameContains(sitemap.name, "openagrar")
          THEN {<<"thunen_atlas">>, <<"openagrar">>} ELSE {})

Harvested(i) == i < run.cur
InOutput(i) ==
    \E j \in DOMAIN run.output : run.output[j].repo_name \in EntryNames(run.sitemaps[i])

\* C11: when a run over several repositories has ended, every repository
\* other than the one whose harvest failed has been harvested and has its
\* report entry in the output of the run.
C11_FailureLeavesOthersAlone ==
    RunEnded =>
        \A i \in DOMAIN run.sitemaps :
            \/ run.status = "exit1" /\ i = run.cur
            \/ Harvested(i) /\ InOutput(i)

ReportFields == {"repo_name", "valid_entries", "failed_entries", "skipped"}

ExpectedNames(i) ==
    LET name == run.sitemaps[i].name
    IN IF run.wrote[i] /\ NameContains(name, "publisso") THEN <<<<"publisso">>>>
       ELSE IF run.wrote[i] /\ NameContains(name, "openagrar")
       THEN <<<<"thunen_atlas">>, <<"openagrar">>>>
       ELSE <<name>>

RECURSIVE ExpectedFrom(_)
ExpectedFrom(i) ==
    IF i > Len(run.sitemaps) THEN <<>> ELSE ExpectedNames(i) \o ExpectedFrom(i + 1)

CallDone == call.st = "done"
OnHttp == call.url.scheme \in {"http", "https"}
Fails(e) == ~call.result.ok /\ call.result.exc = e

\* C13: a call for an address whose scheme is not http, https or file ends
\* with HttpSessionArgumentError, and no request was sent and no file opened.
C13_OtherSchemeIsArgumentError ==
    (CallDone /\ call.url.scheme \notin {"http", "https", "file"})
        => (Fails("HttpSessionArgumentError") /\ call.io = <<>>)

C15_ClientStatusIsResponseError ==
    (CallDone /\ OnHttp /\ call.ans.io = "response"
     /\ 400 <= call.ans.status /\ call.ans.status < 500)
        => Fails("HttpSessionResponseError")

\* the bytes of the address were obtained
GotBytes ==
    /\ call.ans.io = "response"
    /\ \/ call.io = <<"open">>
       \/ call.io = <<"request">> /\ call.ans.status < 400

\* C16: when the bytes were obtained, over the network or from a file, and
\* cannot be turned into text, the call ends with HttpSessionDecodeError.
C16_DecodeFailureIsDecodeError ==
    (CallDone /\ GotBytes /\ call.ans.bytes # "text")
        => Fails("HttpSessionDecodeError")

\* a file whose bytes do not decode in the detected encoding
C16_Witness ==
    /\ CallDone /\ call.url.scheme = "file" /\ GotBytes
    /\ call.ans.bytes = "undecodable"
    /\ Fails("HttpSessionDecodeError")

\* C17: every call ends with the text or with one of the fetch errors, and a
\* file that cannot be read ends the call with HttpSessionResponseError.
C17_OnlyFetchErrorsEscape ==
    CallDone =>
        /\ call.result.ok \/ call.result.exc \in FetchErrors
        /\ (call.io = <<"open">> /\ call.ans.io # "response")
                => Fails("HttpSessionResponseError")

\* ------------------------------------------------------- the connector
\* the tasks whose request waits for a connection
Waiting == {i \in DOMAIN tasks : tasks[i].st = "queued"
                                  /\ urls[i].scheme \in {"http", "https"}}

WaitingStep ==
    \A i \in Waiting : tasks'[i].st \in {"queued", "inflight"}

Created == reg.last.family # "-"

\* C19: a create_instance(identifier) returns a new instance, one not handed
\* out before, of the class registered under identifier, and raises
\* ValueError when no class is registered under it.
C19_FreshInstanceOrUnknown ==
    Created =>
        IF reg.last.registered = "None"
        THEN ~reg.last.ok /\ reg.last.exc = "ValueError"
        ELSE /\ reg.last.ok
             /\ reg.last.oid \notin 1..reg.last.known
             /\ reg.objects[reg.last.oid] = reg.last.registered

\* the families whose classes registered the identifier
RegisteredBy(identifier) ==
    {FamilyOf(e[1]) : e \in {x \in reg.log : x[2] = identifier}}

\* C20: an identifier that only classes of one family registered is unknown
\* to create_instance of the other family.
C20_SeparateRegistries ==
    \A identifier \in RegIds, family \in Families :
        (RegisteredBy(identifier) # {} /\ family \notin RegisteredBy(identifier))
            => CreateInstanceIn(reg.impl, family, identifier) = Raise("ValueError")

\* ---------------------------------------------------------- extractors
\* what metadata(content, url) gives for the document in hand
MetadataHere == ExtractorMetadata(ext.class, ext.content, ext.url)

\* C21: get_metadata_or_log_error never raises MetadataParseError: when
\* metadata raises it, the raw metadata are read and None is returned; when
\* metadata succeeds, its records are returned as they are.
C21_ParseErrorBecomesNone ==
    ext.st = "or_log_error" =>
        /\ ~(~ext.result.ok /\ ext.result.exc = "MetadataParseError")
        /\ (~MetadataHere.ok /\ MetadataHere.exc = "MetadataParseError")
                => /\ ext.result = Ok(PyNone)
                   /\ ext.raw = RawMetadata(ext.class, ext.content).val
        /\ MetadataHere.ok => ext.result = MetadataHere

\* the embedded extractor on a page whose ld+json script is malformed: None
\* is returned and the text of the script was read
C21_Witness ==
    /\ ext.st = "or_log_error"
    /\ ext.class = "MetadataExtractorEmbeddedJsonld"
    /\ ext.content.fmt = "badhtml"
    /\ ext.result = Ok(PyNone)
    /\ ext.raw = <<ScriptText(ext.content)>>

\* C22: metadata(content, url) with empty content raises MetadataParseError,
\* for both extractor classes.
C22_EmptyContentRaises ==
    (ext.st = "metadata" /\ ext.content.fmt = "empty")
        => (~ext.result.ok /\ ext.result.exc = "MetadataParseError")

C22_Witness ==
    /\ ext.st = "metadata"
    /\ ext.class = "MetadataExtractorEmbeddedJsonld"
    /\ ext.content.fmt = "empty"
    /\ ~ext.result.ok

\* C23: for a text that json.loads parses, the plain extractor returns the
\* parsed list itself when the text is an array and a one-element list
\* holding the parsed object when it is a bare object.
C23_ParsedValueIsReturned ==
    (ext.st = "metadata" /\ ext.class = "MetadataExtractorJsonld"
     /\ JsonLoads(ext.content, ext.url).ok)
        => LET parsed == JsonLoads(ext.content, ext.url).val
           IN IF parsed.is_list
              THEN ext.result = Ok(PyList(parsed.items))
              ELSE ext.result = Ok(PyList(<<parsed.items[1]>>))

\* a bare object came back as a list of one record
C23_Witness ==
    /\ ext.st = "metadata" /\ ext.class = "MetadataExtractorJsonld"
    /\ ext.content.fmt = "object"
    /\ ext.result.ok /\ Len(ext.result.val.items) = 1

\* the index documents that do not parse as the Thuenen atlas expects
NotAsExpected == {"empty", "garbage", "xml", "object", "openagrar", "publisso"}

\* C24: reading the metadata of a parser whose has_metadata is true raises
\* SitemapParseError whenever the content is empty, is not JSON or is JSON
\* without the expected structure.
C24_UnparsableIsSitemapParseError ==
    (ext.st = "parser_metadata"
     /\ HasMetadata([class |-> ext.class, content |-> ext.content])
     /\ ext.content.fmt \in NotAsExpected)
        => (~ext.result.ok /\ ext.result.exc = "SitemapParseError")

\* ------------------------------------------------------------ the join
\* a task that has ended stays as it ended
EndedTasksStay ==
    \A i \in DOMAIN tasks : tasks[i].st = "done" => tasks'[i] = tasks[i]

\* C25: the result of the fan-out is computed only when every task has
\* ended; there is one task per dataset address, a task that has ended is
\* not run again, and the exception of one task ends no other task.
C25_JoinAfterAllTasks ==
    /\ [](pc = "fanout" => Len(tasks) = Len(urls))
    /\ [](FanoutRan => (Len(tasks) = Len(urls)
                        /\ \A i \in DOMAIN tasks : tasks[i].st = "done"))
    /\ [][EndedTasksStay]_vars

\* a harvest in which one task raised and another one, which ended after it,
\* gave its records
C25_Witness ==
    /\ FanoutRan
    /\ Len(tasks) = 3
    /\ tasks[1].res.kind = "exc"
    /\ tasks[2].res.kind = "list"
    /\ tasks[3].res.kind = "None"

\* ------------------------------------------------------------ the end
NoTaskPending == \A i \in DOMAIN tasks : tasks[i].st = "done"

\* C26: every scrape_repo comes to its end, having returned a pair of
\* records and report or having raised, with no fan-out task pending.
C26_EndsWithPairOrRaise ==
    <>(pc = "done" /\ ret.kind \in {"pair", "raise"} /\ NoTaskPending)

\* the part of C26 that is about the end alone: every scrape_repo comes to
\* its end with no fan-out task pending
Terminates == <>(pc = "done" /\ NoTaskPending)

\* ------------------------------------------------- files and commits
\* the repositories process_sitemap has returned for
ProcessedRepos == DOMAIN run.written

\* C27: in a run with git, no output file of a repository configured with
\* commit = false is committed, and every output file written for a
\* repository configured with commit = true is committed.
C27_CommitFlagDecides ==
    (run.status # "-" /\ run.git) =>
        \A i \in ProcessedRepos :
            IF run.sitemaps[i].commit
            THEN run.committed[i] = run.written[i]
            ELSE run.committed[i] = {}

\* C28: in a report that scrape_repo returned, failed_entries lies between 0
\* and the number of dataset addresses and valid_entries is not negative.
C28_CountsInRange ==
    ReturnedPair =>
        /\ 0 <= ret.report.failed_entries
        /\ ret.report.failed_entries <= Len(urls)
        /\ 0 <= ret.report.valid_entries

\* C29: the file <name>.json is written exactly when the harvest handed back
\* a collection of records that is not empty; after a harvest without
\* records the repository has no file and no commit, and has its entry in
\* the report.
C29_FileIffRecords ==
    run.status # "-" =>
        \A i \in DOMAIN run.harvests :
            run.harvests[i].kind # "raise" =>
                /\ run.harvests[i].nonempty <=> (i \in DOMAIN run.wrote /\ run.wrote[i])
                /\ ~run.harvests[i].nonempty =>
                        /\ i \in ProcessedRepos
                        /\ run.written[i] = {}
                        /\ run.committed[i] = {}
                        /\ \E j \in DOMAIN run.full_report :
                                run.full_report[j].repo_name = run.sitemaps[i].name

\* ------------------------------------------------------- the encoding
\* C30: when the detection finds no encoding for the bytes obtained, the
\* call decodes them as UTF-8 and does not end with HttpSessionDecodeError.
C30_NoEncodingFallsBackToUtf8 ==
    (CallDone /\ GotBytes /\ call.ans.bytes = "nodetect")
        => ~Fails("HttpSessionDecodeError")

====
